---------------------------- MODULE Spec2Model ----------------------------
(***************************************************************************)
(* State-machine model of the three LMO orchestrator scripts:              *)
(*   doc/scripts/run_optimization_cycle.py  (the scoring run)              *)
(*   doc/scripts/check_drift.py             (the drift check)              *)
(*   doc/scripts/provision_client.py        (the provisioning routine)     *)
(*                                                                         *)
(* Score values are integers in thousandths (1.0 is One = 1000).  A float  *)
(* a provider returns is a record [nan, v] so that NaN keeps the           *)
(* comparison semantics Python gives it.                                   *)
(***************************************************************************)
EXTENDS Integers, Sequences, FiniteSets, TLC

VARIABLES
    pc,         \* position of the running script
    env,        \* process environment: the provider credentials
    doc,        \* contents of doc/clients/clients.yaml
    clients,    \* run_cycle: the list load_clients returned
    ci,         \* run_cycle: index of the client being processed (0 before the loop)
    pi,         \* score_with_all_llms: index of the next entry of LLM_CONFIGS
    per_llm,    \* score_with_all_llms: the ProviderScore of each provider called so far
    lastResp,   \* what the provider answered to the latest call_llm
    scores,     \* run_cycle: the aggregate of the current client (NoScores before it is computed)
    requests,   \* every HTTP request issued so far, in order
    log,        \* the printed lines the properties refer to, in order
    exitStatus, \* -1 while running, else the exit status of the process
    error,      \* "" or the exception that ended the process
    rows,       \* Tracker Sink: the rows of the tracking database
    results,    \* check_drift: the pages the query returned
    ri,         \* check_drift: number of results printed so far
    repo,       \* hosting service: TRUE once the repository exists
    rowId       \* provisioning: id of the tracking row created (0 while none)

vars == <<pc, env, doc, clients, ci, pi, per_llm, lastResp, scores, requests,
          log, exitStatus, error, rows, results, ri, repo, rowId>>

-----------------------------------------------------------------------------
(* Bounds of the model *)

MaxClients == 2
MaxRows == 3

(* 1.0 in thousandths *)
One == 1000

-----------------------------------------------------------------------------
(* Configuration *)

LLM_CONFIGS ==
    << [name |-> "chatgpt-4.1-mini",  backend |-> "openai",    model |-> "gpt-4.1-mini"],
       [name |-> "chatgpt-4.1",       backend |-> "openai",    model |-> "gpt-4.1"],
       [name |-> "claude-3.5-sonnet", backend |-> "anthropic", model |-> "claude-3.5-sonnet"],
       [name |-> "gemini-1.5-flash",  backend |-> "gemini",    model |-> "models/gemini-1.5-flash"] >>

\* OPENAI_API_KEY may be set, set to an empty string, or unset; the other two
\* keys are read with os.getenv(..., "").strip(), so unset and empty coincide.
Envs ==
    [openai : {"set", "empty", "unset"}, anthropic : {"set", "absent"},
     gemini : {"set", "absent"}]

DefaultEnv == [openai |-> "set", anthropic |-> "set", gemini |-> "set"]

-----------------------------------------------------------------------------
(* The Client Source file *)

\* A client entry: its name and its notion_page_id (0: unset or empty).
Entry(i, pid) == [name |-> i, notion_page_id |-> pid]

RECURSIVE EntryLists(_)
EntryLists(n) ==
    IF n = 0 THEN {<< >>}
    ELSE LET shorter == EntryLists(n - 1)
         IN  shorter \cup
             { Append(l, Entry(n, p)) : l \in {s \in shorter : Len(s) = n - 1},
                                        p \in {0, n} }

\* kind: "mapping"       a mapping whose `clients` is a list (entries)
\*       "legacy_list"   the top-level document is the list (entries)
\*       "map_nonlist"   a mapping whose `clients` is not a list (entries are
\*                       what the non-list container holds)
\*       "map_noclients" a mapping without `clients`
\*       "empty"         an empty document (safe_load gives None)
\*       "absent"        the file does not exist
Docs ==
    [kind : {"mapping", "legacy_list", "map_nonlist"}, entries : EntryLists(MaxClients)]
    \cup [kind : {"map_noclients", "empty", "absent"}, entries : {<< >>}]


-----------------------------------------------------------------------------
(* Floats, as far as clamp01 needs them *)

Flt(n) == [nan |-> FALSE, v |-> n]
NaN == [nan |-> TRUE, v |-> 0]

\* a < b on floats: every comparison with NaN is false
Less(a, b) == ~a.nan /\ ~b.nan /\ a.v < b.v

\* Python's min(a, b) is b when b < a, else a; max(a, b) is b when b > a, else a
PyMin(a, b) == IF Less(b, a) THEN b ELSE a
PyMax(a, b) == IF Less(a, b) THEN b ELSE a

ClampUpperOnly(x) == PyMin(Flt(One), x)

clamp01(x) == PyMax(Flt(0), PyMin(Flt(One), x))

-----------------------------------------------------------------------------
(* What a provider can answer *)

\* A field of the JSON object in the provider's text: a number, absent, or a
\* value float() rejects.
Num(n) == [t |-> "num", f |-> Flt(n)]
NumNaN == [t |-> "num", f |-> NaN]
Missing == [t |-> "missing", f |-> Flt(0)]
Text == [t |-> "text", f |-> Flt(0)]

Obj(v, a, d) == [visibility |-> v, accuracy |-> a, drift |-> d]

InnerObjects ==
    { Obj(Num(800), Num(600), Num(100)),
      Obj(Num(400), Num(900), Num(300)),
      Obj(Num(1400), Num(0 - 200), NumNaN),
      Obj(Num(333), Num(1), Missing),
      Obj(Num(500), Text, Num(500)) }

NoObj == Obj(Missing, Missing, Missing)

\* kind: "network_error"  the request raised (connection, timeout)
\*       "http_error"     a non-success status
\*       "bad_envelope"   the envelope lacks the field holding the text
\*       "bad_json"       the text is not JSON
\*       "json"           the text parses to obj
\*       "none"           no request was made
FailureKinds == {"network_error", "http_error", "bad_envelope", "bad_json"}

Responses ==
    [kind : FailureKinds, obj : {NoObj}] \cup [kind : {"json"}, obj : InnerObjects]

NoResp == [kind |-> "none", obj |-> NoObj]

\* An empty OPENAI_API_KEY is sent as it is and cannot be accepted.
ResponsesTo(cfg, e) ==
    IF cfg.backend = "openai" /\ e.openai = "empty"
    THEN [kind : {"network_error", "http_error"}, obj : {NoObj}]
    ELSE Responses

-----------------------------------------------------------------------------
(* call_llm *)

NoNote == [kind |-> "provider", detail |-> ""]

Score(v, a, d, n) == [visibility |-> v, accuracy |-> a, drift |-> d, notes |-> n]

\* float(data.get(key, 0.0)): the default when the key is absent, an
\* exception when the value is not a number
FieldRaises(x) == x.t = "text"
FieldFloat(x) == IF x.t = "missing" THEN Flt(0) ELSE x.f

\* The body of the try block: [exc, score].  exc is "" when the block returns.
TryBody(resp) ==
    IF resp.kind = "network_error" THEN [exc |-> "network_error", score |-> Score(0, 0, 0, NoNote)]
    ELSE IF resp.kind = "http_error" THEN [exc |-> "http_error", score |-> Score(0, 0, 0, NoNote)]
    ELSE IF resp.kind = "bad_envelope" THEN [exc |-> "missing_field", score |-> Score(0, 0, 0, NoNote)]
    ELSE IF resp.kind = "bad_json" THEN [exc |-> "json_decode", score |-> Score(0, 0, 0, NoNote)]
    ELSE IF \E k \in {"visibility", "accuracy", "drift"} : FieldRaises(resp.obj[k])
         THEN [exc |-> "bad_value", score |-> Score(0, 0, 0, NoNote)]
    ELSE [exc |-> "",
          score |-> Score(clamp01(FieldFloat(resp.obj.visibility)).v,
                          clamp01(FieldFloat(resp.obj.accuracy)).v,
                          clamp01(FieldFloat(resp.obj.drift)).v,
                          NoNote)]

\* The result of call_llm: whether a request went out, whether an exception
\* left the function, and the ProviderScore returned.
Returned(sent, score) == [sent |-> sent, raised |-> "", score |-> score]

ExceptReraise(name, exc) ==
    [sent |-> TRUE, raised |-> exc, score |-> Score(0, 0, 0, NoNote)]

\* except Exception as e: return the fallback scores
ExceptFallback(name, exc) ==
    Returned(TRUE, Score(0, 0, 0, [kind |-> "fallback_error", detail |-> exc]))

Guarded(name, resp) ==
    LET t == TryBody(resp)
    IN  IF t.exc = "" THEN Returned(TRUE, t.score) ELSE ExceptFallback(name, t.exc)

SkipMissingKey(name, key) ==
    Returned(FALSE, Score(0, 0, 0, [kind |-> "skipped_missing_key", detail |-> key]))

call_llm(cfg, e, resp) ==
    IF cfg.backend = "openai" THEN Guarded(cfg.name, resp)
    ELSE IF cfg.backend = "anthropic"
         THEN IF e.anthropic = "absent"
              THEN SkipMissingKey(cfg.name, "ANTHROPIC_API_KEY")
              ELSE Guarded(cfg.name, resp)
    ELSE IF cfg.backend = "gemini"
         THEN IF e.gemini = "absent"
              THEN SkipMissingKey(cfg.name, "GEMINI_API_KEY")
              ELSE Guarded(cfg.name, resp)
    ELSE Returned(FALSE, Score(0, 0, 0, [kind |-> "unsupported_backend", detail |-> cfg.backend]))

\* Whether call_llm reaches its request for this provider
Sends(cfg, e) == call_llm(cfg, e, NoResp).sent

-----------------------------------------------------------------------------
(* score_with_all_llms: the aggregation *)

RECURSIVE SumOf(_, _)
SumOf(list, field) ==
    IF list = << >> THEN 0 ELSE Head(list)[field] + SumOf(Tail(list), field)

\* round(sum / n, 3) in thousandths.  The quotient is a binary float, so a
\* value halfway between two thousandths goes to whichever side its binary
\* representation lies on: both are possible.
Round3(sum, n) ==
    LET q == sum \div n
        r == sum % n
    IN  IF 2 * r < n THEN {q}
        ELSE IF 2 * r > n THEN {q + 1}
        ELSE {q, q + 1}

SuccessfulOnly(list) ==
    SelectSeq(list, LAMBDA s : s.notes.kind = "provider")

\* the lists score_with_all_llms averages: one entry per call_llm result
Averaged(list) == list

\* sum(list) / len(list), rounded: the possible values of one aggregate field
Overall(list, field) ==
    IF Averaged(list) = << >> THEN {0}
    ELSE Round3(SumOf(Averaged(list), field), Len(Averaged(list)))

\* f"{x:.2f}" in hundredths (ties to even)
Fmt2(x) ==
    LET q == x \div 10
        r == x % 10
    IN  IF r < 5 THEN q
        ELSE IF r > 5 THEN q + 1
        ELSE IF q % 2 = 0 THEN q ELSE q + 1

Breakdown(list) ==
    [k \in 1..Len(list) |->
        [name |-> LLM_CONFIGS[k].name, v |-> Fmt2(list[k].visibility),
         a |-> Fmt2(list[k].accuracy), d |-> Fmt2(list[k].drift)]]

NoScores ==
    [visibility |-> 0, accuracy |-> 0, drift |-> 0, breakdown |-> << >>,
     event_label |-> ""]

-----------------------------------------------------------------------------
(* The scoring run: run_optimization_cycle.py *)

Fail(exc) ==
    /\ pc' = "failed"
    /\ exitStatus' = 1
    /\ error' = exc

Request(to, client, provider, page) ==
    [to |-> to, client |-> client, provider |-> provider, page |-> page]

InitCommon ==
    /\ clients = << >>
    /\ ci = 0
    /\ pi = 0
    /\ per_llm = << >>
    /\ lastResp = NoResp
    /\ scores = NoScores
    /\ requests = << >>
    /\ log = << >>
    /\ exitStatus = -1
    /\ error = ""
    /\ results = << >>
    /\ ri = 0
    /\ repo = FALSE
    /\ rowId = 0

InitCycle ==
    /\ pc = "import"
    /\ env \in Envs
    /\ doc \in Docs
    /\ rows = << >>
    /\ InitCommon

\* Module level: OpenAI() refuses to be constructed without OPENAI_API_KEY in
\* the environment; the other two keys default to "".  (NOTION_TOKEN and
\* NOTION_LMO_DB are taken to be set.)
Import ==
    /\ pc = "import"
    /\ IF env.openai = "unset"
       THEN Fail("OpenAIError")
       ELSE pc' = "load" /\ UNCHANGED <<exitStatus, error>>
    /\ UNCHANGED <<env, doc, clients, ci, pi, per_llm, lastResp, scores, requests,
                   log, rows, results, ri, repo, rowId>>

AcceptsAnyClientsKey(d) ==
    IF d.kind = "absent" THEN "FileNotFoundError"
    ELSE IF d.kind \in {"mapping", "map_nonlist"} THEN ""
    ELSE "ValueError"

\* load_clients: "" when it returns, else the exception it raises.
\*   data = yaml.safe_load(f) or {}
\*   if "clients" not in data or not isinstance(data["clients"], list): raise ValueError
\* A top-level list of client mappings does not contain the string "clients".
LoadClientsError(d) ==
    IF d.kind = "absent" THEN "FileNotFoundError"
    ELSE IF d.kind = "mapping" THEN ""
    ELSE "ValueError"

LoadClients ==
    /\ pc = "load"
    /\ IF LoadClientsError(doc) = ""
       THEN /\ clients' = doc.entries
            /\ pc' = "loop"
            /\ UNCHANGED <<exitStatus, error>>
       ELSE /\ Fail(LoadClientsError(doc))
            /\ UNCHANGED clients
    /\ UNCHANGED <<env, doc, ci, pi, per_llm, lastResp, scores, requests, log,
                   rows, results, ri, repo, rowId>>

\* for c in clients: ... prompt = build_prompt(c); score_with_all_llms(prompt)
\* starts with empty lists.  scores is rebound before it is read again.
NextClient ==
    /\ pc = "loop"
    /\ ci < Len(clients)
    /\ ci' = ci + 1
    /\ pi' = 1
    /\ per_llm' = << >>
    /\ lastResp' = NoResp
    /\ scores' = NoScores
    /\ pc' = "call_llm"
    /\ UNCHANGED <<env, doc, clients, requests, log, exitStatus, error, rows,
                   results, ri, repo, rowId>>

\* the loop is exhausted: "cycle complete", exit status 0
CycleComplete ==
    /\ pc = "loop"
    /\ ci = Len(clients)
    /\ pc' = "done"
    /\ exitStatus' = 0
    /\ UNCHANGED <<env, doc, clients, ci, pi, per_llm, lastResp, scores, requests,
                   log, error, rows, results, ri, repo, rowId>>

RetryAfterFallback(p, r) ==
    IF r.score.notes.kind = "fallback_error" THEN p ELSE p + 1

\* `for cfg in LLM_CONFIGS`: the entry that follows entry p, whatever result r
\* call_llm returned for it
NextProvider(p, r) == p + 1

\* one iteration of `for cfg in LLM_CONFIGS`: scores = call_llm(cfg, prompt)
CallProvider ==
    /\ pc = "call_llm"
    /\ pi <= Len(LLM_CONFIGS)
    /\ LET cfg == LLM_CONFIGS[pi]
       IN  \E resp \in (IF Sends(cfg, env) THEN ResponsesTo(cfg, env) ELSE {NoResp}) :
              LET r == call_llm(cfg, env, resp)
              IN  /\ lastResp' = resp
                  /\ requests' = IF r.sent
                                 THEN Append(requests, Request(cfg.backend, ci, pi, 0))
                                 ELSE requests
                  /\ IF r.raised = ""
                     THEN /\ per_llm' = Append(per_llm, r.score)
                          /\ pi' = NextProvider(pi, r)
                          /\ pc' = IF pi' > Len(LLM_CONFIGS) THEN "aggregate" ELSE "call_llm"
                          /\ UNCHANGED <<exitStatus, error>>
                     ELSE /\ Fail(r.raised)
                          /\ UNCHANGED <<per_llm, pi>>
    /\ UNCHANGED <<env, doc, clients, ci, scores, log, rows, results, ri, repo, rowId>>

\* the rest of score_with_all_llms: the means, the breakdown, the rounding
Aggregate ==
    /\ pc = "aggregate"
    /\ \E v \in Overall(per_llm, "visibility"), a \in Overall(per_llm, "accuracy"),
          d \in Overall(per_llm, "drift") :
          scores' = [visibility |-> v, accuracy |-> a, drift |-> d,
                     breakdown |-> Breakdown(per_llm),
                     event_label |-> "Weekly optimization cycle (multi-LLM)"]
    /\ pc' = "page_id"
    /\ UNCHANGED <<env, doc, clients, ci, pi, per_llm, lastResp, requests, log,
                   exitStatus, error, rows, results, ri, repo, rowId>>

NeverSkips(c) == FALSE

\* page_id = c.get("notion_page_id"); if not page_id: ... continue
MissingPageId(c) == c.notion_page_id = 0

SkipClient ==
    /\ pc = "page_id"
    /\ MissingPageId(clients[ci])
    /\ log' = Append(log, [line |-> "Skipping: missing notion_page_id", client |-> ci])
    /\ pc' = "loop"
    /\ UNCHANGED <<env, doc, clients, ci, pi, per_llm, lastResp, scores, requests,
                   exitStatus, error, rows, results, ri, repo, rowId>>

\* notion_update(page_id, scores): one PATCH carrying scores; a response that
\* is not ok raises out of notion_update and out of run_cycle.
NotionUpdate ==
    /\ pc = "page_id"
    /\ ~MissingPageId(clients[ci])
    /\ requests' = Append(requests,
                          Request("notion_patch", ci, 0, clients[ci].notion_page_id))
    /\ \E ok \in BOOLEAN :
          IF ok
          THEN pc' = "loop" /\ UNCHANGED <<exitStatus, error>>
          ELSE Fail("HTTPError")
    /\ UNCHANGED <<env, doc, clients, ci, pi, per_llm, lastResp, scores, log,
                   rows, results, ri, repo, rowId>>

NextCycle ==
    \/ Import
    \/ LoadClients
    \/ NextClient
    \/ CycleComplete
    \/ CallProvider
    \/ Aggregate
    \/ SkipClient
    \/ NotionUpdate

SpecCycle == InitCycle /\ [][NextCycle]_vars

-----------------------------------------------------------------------------
(* The drift check: check_drift.py *)

Threshold == 400

\* A tracking row: its number, its title (name 0: the title is empty), its
\* Status, Drift Score and Monthly Fee.
Statuses == {"Active", "System"}
Drifts == {200, 400, 500, 600}

TrackingRow(i, titled, status, drift) ==
    [id |-> i, name |-> IF titled THEN i ELSE 0, status |-> status,
     drift |-> drift, monthly |-> 100 * i]

RECURSIVE RowLists(_)
RowLists(n) ==
    IF n = 0 THEN {<< >>}
    ELSE LET shorter == RowLists(n - 1)
         IN  shorter \cup
             { Append(l, TrackingRow(n, t, s, d)) :
                 l \in {x \in shorter : Len(x) = n - 1},
                 t \in BOOLEAN, s \in Statuses, d \in Drifts }

InitDrift ==
    /\ pc = "query"
    /\ env = DefaultEnv
    /\ doc = [kind |-> "absent", entries |-> << >>]
    /\ rows \in RowLists(MaxRows)
    /\ InitCommon

MatchesAbove(r, threshold) ==
    r.status # "System" /\ r.drift > threshold

\* the filter of the query payload: Status does_not_equal "System" and
\* Drift Score greater_than_or_equal_to threshold
Matches(r, threshold) ==
    r.status # "System" /\ r.drift >= threshold

\* what the Tracker Sink answers to the query
QueryResults(rs, threshold) == SelectSeq(rs, LAMBDA r : Matches(r, threshold))

\* query_high_drift: one POST; a response that is not ok raises
QueryHighDrift ==
    /\ pc = "query"
    /\ requests' = Append(requests, Request("notion_query", 0, 0, 0))
    /\ \E ok \in BOOLEAN :
          IF ok
          THEN /\ results' = QueryResults(rows, Threshold)
               /\ pc' = "report"
               /\ UNCHANGED <<exitStatus, error>>
          ELSE /\ Fail("HTTPError")
               /\ UNCHANGED results
    /\ UNCHANGED <<env, doc, clients, ci, pi, per_llm, lastResp, scores, log,
                   rows, ri, repo, rowId>>

\* if not results: sys.exit(0)
NoDrift ==
    /\ pc = "report"
    /\ results = << >>
    /\ pc' = "done"
    /\ exitStatus' = 0
    /\ UNCHANGED <<env, doc, clients, ci, pi, per_llm, lastResp, scores, requests,
                   log, error, rows, results, ri, repo, rowId>>

\* for page in results: print(f"- {name}: drift={drift}, monthly={monthly}")
ReportRow ==
    /\ pc = "report"
    /\ ri < Len(results)
    /\ ri' = ri + 1
    /\ log' = Append(log, [line |-> "drift", name |-> results[ri + 1].name,
                           drift |-> results[ri + 1].drift,
                           monthly |-> results[ri + 1].monthly])
    /\ UNCHANGED <<pc, env, doc, clients, ci, pi, per_llm, lastResp, scores,
                   requests, exitStatus, error, rows, results, repo, rowId>>

\* sys.exit(1) after the loop
DriftAlert ==
    /\ pc = "report"
    /\ results # << >>
    /\ ri = Len(results)
    /\ pc' = "done"
    /\ exitStatus' = 1
    /\ UNCHANGED <<env, doc, clients, ci, pi, per_llm, lastResp, scores, requests,
                   log, error, rows, results, ri, repo, rowId>>

NextDrift ==
    \/ QueryHighDrift
    \/ NoDrift
    \/ ReportRow
    \/ DriftAlert

SpecDrift == InitDrift /\ [][NextDrift]_vars

-----------------------------------------------------------------------------
(* The provisioning routine: provision_client.py *)

InitProvision ==
    /\ pc = "create_repo"
    /\ env = DefaultEnv
    /\ doc \in Docs
    /\ rows = << >>
    /\ InitCommon

\* What a creating POST can come to: accepted; refused (nothing created);
\* accepted with a body that lacks the field the routine reads.
CreateOutcomes == {"ok", "http_error", "bad_body"}

\* the id the Tracker Sink gives the new row: no entry of the file has it
FreshId(d) == Len(d.entries) + 1

ContinuesAfterFailure(step, outcome) ==
    IF step = "create_repo" THEN "create_row"
    ELSE IF step = "create_row" THEN "update_yaml"
    ELSE "done"

\* main: the statement that runs after `step` ended with `outcome`
\* ("failed": the exception leaves main)
AfterStep(step, outcome) ==
    IF outcome # "ok" THEN "failed"
    ELSE IF step = "create_repo" THEN "create_row"
    ELSE IF step = "create_row" THEN "update_yaml"
    ELSE "done"

StepError(outcome) ==
    IF outcome = "http_error" THEN "HTTPError"
    ELSE IF outcome = "bad_body" THEN "KeyError"
    ELSE IF outcome = "bad_clients" THEN "AttributeError"
    ELSE ""

Goto(step, outcome) ==
    /\ pc' = AfterStep(step, outcome)
    /\ IF pc' = "failed"
       THEN exitStatus' = 1 /\ error' = StepError(outcome)
       ELSE IF pc' = "done"
            THEN exitStatus' = 0 /\ UNCHANGED error
            ELSE UNCHANGED <<exitStatus, error>>

\* create_repo_from_template
CreateRepo ==
    /\ pc = "create_repo"
    /\ requests' = Append(requests, Request("github_generate", 0, 0, 0))
    /\ \E outcome \in CreateOutcomes :
          /\ repo' = (outcome # "http_error")
          /\ Goto("create_repo", outcome)
    /\ UNCHANGED <<env, doc, clients, ci, pi, per_llm, lastResp, scores, log,
                   rows, results, ri, rowId>>

\* create_notion_row
CreateNotionRow ==
    /\ pc = "create_row"
    /\ requests' = Append(requests, Request("notion_create", 0, 0, 0))
    /\ \E outcome \in CreateOutcomes :
          /\ rows' = IF outcome = "http_error" THEN rows
                     ELSE Append(rows, [id |-> FreshId(doc), status |-> "Active"])
          /\ rowId' = IF outcome = "ok" THEN FreshId(doc) ELSE rowId
          /\ Goto("create_row", outcome)
    /\ UNCHANGED <<env, doc, clients, ci, pi, per_llm, lastResp, scores, log,
                   results, ri, repo>>

NewEntryWithoutId(d, page_id) == Entry(Len(d.entries) + 1, 0)

\* new_entry = {..., "notion_page_id": notion_page_id}
NewEntry(d, page_id) == Entry(Len(d.entries) + 1, page_id)

\* update_clients_yaml: [outcome, doc], the file as it is left.
\*   a missing or empty file starts from {}; a top-level list becomes
\*   {"clients": list}; clients = data.get("clients", []); clients.append(...)
\*   (a `clients` that is no list has no append); the file is rewritten.
UpdateClientsYaml(d, page_id) ==
    IF d.kind = "map_nonlist"
    THEN [outcome |-> "bad_clients", doc |-> d]
    ELSE [outcome |-> "ok",
          doc |-> [kind |-> "mapping",
                   entries |-> Append(d.entries, NewEntry(d, page_id))]]

UpdateYaml ==
    /\ pc = "update_yaml"
    /\ LET u == UpdateClientsYaml(doc, rowId)
       IN  /\ doc' = u.doc
           /\ Goto("update_yaml", u.outcome)
    /\ UNCHANGED <<env, clients, ci, pi, per_llm, lastResp, scores, requests, log,
                   rows, results, ri, repo, rowId>>

NextProvision ==
    \/ CreateRepo
    \/ CreateNotionRow
    \/ UpdateYaml

SpecProvision == InitProvision /\ [][NextProvision]_vars

-----------------------------------------------------------------------------
(* Properties of the scoring run *)

HasPageId(j) == clients[j].notion_page_id # 0

\* an update request for client j was issued
Updated(j) ==
    \E k \in 1..Len(requests) :
        requests[k].to = "notion_patch" /\ requests[k].client = j

\* provider p was sent a request on behalf of client j
Called(j, p) ==
    \E k \in 1..Len(requests) :
        /\ requests[k].to = LLM_CONFIGS[p].backend
        /\ requests[k].client = j
        /\ requests[k].provider = p

IsZero(s) == s.visibility = 0 /\ s.accuracy = 0 /\ s.drift = 0

ProviderErrors ==
    {"network_error", "http_error", "missing_field", "json_decode", "bad_value"}

\* C1: when the Tracker Sink refuses one client's update, every later client
\* that has a tracking_row_id still has its providers called and its own
\* update request issued: once the run has ended on a refused update, no
\* such client is left without them.
C1_SinkFailureIsolated ==
    (pc = "failed" /\ error = "HTTPError") =>
        \A j \in (ci + 1)..Len(clients) :
            HasPageId(j) =>
                /\ Updated(j)
                /\ \A p \in 1..Len(LLM_CONFIGS) : Sends(LLM_CONFIGS[p], env) => Called(j, p)

C2_State ==
    /\ (per_llm # << >> /\ lastResp.kind \in FailureKinds) =>
           LET s == per_llm[Len(per_llm)]
           IN  /\ IsZero(s)
               /\ s.notes.kind = "fallback_error"
               /\ s.notes.detail \in ProviderErrors
    /\ error \notin ProviderErrors
    /\ pc \in {"aggregate", "page_id"} => Len(per_llm) = Len(LLM_CONFIGS)

C2_Step ==
    (pc = "call_llm" /\ lastResp'.kind \in FailureKinds) =>
        /\ Len(per_llm') = Len(per_llm) + 1
        /\ pi' = pi + 1
        /\ pc' = (IF pi = Len(LLM_CONFIGS) THEN "aggregate" ELSE "call_llm")
        /\ exitStatus' = -1

CredentialAbsent(cfg, e) ==
    IF cfg.backend = "openai" THEN e.openai # "set"
    ELSE IF cfg.backend = "anthropic" THEN e.anthropic = "absent"
    ELSE e.gemini = "absent"

\* C3: a provider whose credential is absent is sent no request, its score is
\* all zero with a note naming the missing credential, and the run is not
\* aborted on that account, for each of the three backends.
C3_MissingCredentialSkipped ==
    /\ error # "OpenAIError"
    /\ \A p \in 1..Len(per_llm) :
           CredentialAbsent(LLM_CONFIGS[p], env) =>
               /\ ~Called(ci, p)
               /\ IsZero(per_llm[p])
               /\ per_llm[p].notes.kind = "skipped_missing_key"

SkipLogged(j) ==
    \E k \in 1..Len(log) :
        log[k].line = "Skipping: missing notion_page_id" /\ log[k].client = j

\* client j's iteration of the loop is over
Processed(j) == j < ci \/ (j = ci /\ pc \in {"loop", "done", "failed"})

\* C4: a client without tracking_row_id gets no Tracker Sink request and a
\* log line noting the skip, and the skip ends nothing: a run that completes
\* has issued the update of every client with an id, on either side of the
\* skipped one, and a run only ever stops at a client whose update was sent.
C4_SkipIsolated ==
    /\ \A k \in 1..Len(requests) :
           requests[k].to = "notion_patch" =>
               /\ HasPageId(requests[k].client)
               /\ requests[k].page = clients[requests[k].client].notion_page_id
    /\ \A j \in 1..Len(clients) :
           (Processed(j) /\ ~HasPageId(j)) => (SkipLogged(j) /\ ~Updated(j))
    /\ pc = "done" => \A j \in 1..Len(clients) : HasPageId(j) => Updated(j)
    /\ (pc = "failed" /\ ci >= 1) =>
           /\ HasPageId(ci)
           /\ \A j \in 1..ci : HasPageId(j) => Updated(j)

\* the first client was skipped and the second one updated
C4_Witness ==
    /\ pc = "done"
    /\ Len(clients) >= 2
    /\ ~HasPageId(1) /\ SkipLogged(1) /\ ~Updated(1)
    /\ HasPageId(2) /\ Updated(2)

Abs(x) == IF x < 0 THEN 0 - x ELSE x

\* m is sum / n rounded to the nearest thousandth
IsRoundedMean(m, sum, n) == 2 * Abs(m * n - sum) <= n

ExampleScores ==
    << Score(800, 600, 100, NoNote), Score(400, 900, 300, NoNote) >>

\* C5: each aggregate field is the mean of that field over all configured
\* providers, rounded to three decimals: the denominator is the number of
\* entries of LLM_CONFIGS, a failed or skipped provider counting as 0; two
\* providers returning (0.8,0.6,0.1) and (0.4,0.9,0.3) give 0.6, 0.75, 0.2.
C5_MeanOverAllProviders ==
    /\ scores # NoScores =>
           /\ Len(per_llm) = Len(LLM_CONFIGS)
           /\ \A f \in {"visibility", "accuracy", "drift"} :
                  IsRoundedMean(scores[f], SumOf(per_llm, f), Len(LLM_CONFIGS))
    /\ Overall(ExampleScores, "visibility") = {600}
    /\ Overall(ExampleScores, "accuracy") = {750}
    /\ Overall(ExampleScores, "drift") = {200}

\* two providers answered, one failed, one was skipped, and the aggregate is
\* the sum over four
C5_Witness ==
    /\ scores # NoScores
    /\ per_llm[1].notes.kind = "provider" /\ per_llm[1].visibility = 800
    /\ per_llm[2].notes.kind = "provider" /\ per_llm[2].visibility = 400
    /\ per_llm[3].notes.kind = "skipped_missing_key"
    /\ per_llm[4].notes.kind = "fallback_error"
    /\ scores.visibility = 300 /\ scores.accuracy = 375 /\ scores.drift = 100

InUnit(x) == 0 <= x /\ x <= One

\* C6: every visibility, accuracy and drift call_llm returns, and every
\* aggregate value computed and sent to the Tracker Sink, lies in [0,1].
C6_ScoresInUnitInterval ==
    /\ \A k \in 1..Len(per_llm) :
           InUnit(per_llm[k].visibility) /\ InUnit(per_llm[k].accuracy)
               /\ InUnit(per_llm[k].drift)
    /\ InUnit(scores.visibility) /\ InUnit(scores.accuracy) /\ InUnit(scores.drift)

\* the last provider returned 1.4, -0.2 and NaN, and the update went out
C6_Witness ==
    /\ Len(per_llm) = Len(LLM_CONFIGS)
    /\ lastResp.kind = "json"
    /\ lastResp.obj.visibility = Num(1400)
    /\ lastResp.obj.accuracy = Num(0 - 200)
    /\ per_llm[4].visibility = One /\ per_llm[4].accuracy = 0 /\ per_llm[4].drift = One
    /\ ci >= 1
    /\ Updated(ci)
    /\ scores.visibility > 0

\* C7: when the top-level document is itself the list of client entries,
\* load_clients returns that list as the clients to process.
C7_LegacyListLoaded ==
    (doc.kind = "legacy_list" /\ pc \notin {"import", "load"} /\ error # "OpenAIError") =>
        /\ error # "ValueError"
        /\ clients = doc.entries

Malformed(d) == d.kind \in {"map_noclients", "map_nonlist"}

\* C8: with a mapping that has no list-valued `clients`, load_clients ends
\* the run with a configuration error, and no request to a provider or to
\* the Tracker Sink is issued before or after.
C8_MalformedFailsBeforeNetwork ==
    Malformed(doc) =>
        /\ requests = << >>
        /\ (pc \notin {"import", "load"} /\ error # "OpenAIError") =>
               (pc = "failed" /\ exitStatus = 1 /\ error = "ValueError")

C8_Witness ==
    /\ doc.kind = "map_nonlist"
    /\ doc.entries # << >>
    /\ pc = "failed"
    /\ error = "ValueError"

\* the positions of the request log that hold a request to provider p on
\* behalf of client j
CallsTo(j, p) ==
    { k \in 1..Len(requests) :
        /\ requests[k].to \notin {"notion_patch"}
        /\ requests[k].client = j
        /\ requests[k].provider = p }

UpdatesOf(j) ==
    { k \in 1..Len(requests) :
        requests[k].to = "notion_patch" /\ requests[k].client = j }

\* the place of a request within its client's iteration: the providers in
\* the configured order, then the update
LogRank(q) ==
    IF q.to = "notion_patch" THEN Len(LLM_CONFIGS) + 1 ELSE q.provider

\* call_llm has returned for provider p of client j
CallReturned(j, p) ==
    \/ j < ci
    \/ j = ci /\ p <= Len(per_llm)

\* the providers a request goes to: all but those whose key is absent and
\* checked for (C3)
Sending ==
    { p \in 1..Len(LLM_CONFIGS) :
        /\ ~(LLM_CONFIGS[p].backend = "anthropic" /\ env.anthropic = "absent")
        /\ ~(LLM_CONFIGS[p].backend = "gemini" /\ env.gemini = "absent") }

\* the number of calls that have returned and sent a request
SentSoFar ==
    IF ci = 0 THEN 0
    ELSE (ci - 1) * Cardinality(Sending)
         + Cardinality({ p \in Sending : p <= Len(per_llm) })

C11_State ==
    LET sending == Sending
        n == Len(LLM_CONFIGS)
        done == Len(per_llm)
    IN  \* one result per provider called so far, in the configured order
        /\ pc = "call_llm" => (pi = done + 1 /\ pi <= n)
        /\ done <= n
        \* every request to a provider belongs to a call that has returned,
        \* of a provider that is not skipped, and goes to its backend; an
        \* update comes after all the client's calls have returned
        /\ \A k \in 1..Len(requests) :
               LET q == requests[k]
               IN  /\ q.client \in 1..ci
                   /\ IF q.to = "notion_patch"
                      THEN q.client < ci \/ done = n
                      ELSE /\ q.provider \in sending
                           /\ q.to = LLM_CONFIGS[q.provider].backend
                           /\ CallReturned(q.client, q.provider)
        \* the log is ordered by client, and within a client by provider,
        \* the update last: no provider and no update occurs twice for a
        \* client
        /\ \A k \in 1..(Len(requests) - 1) :
               \/ requests[k].client < requests[k + 1].client
               \/ /\ requests[k].client = requests[k + 1].client
                  /\ LogRank(requests[k]) < LogRank(requests[k + 1])
        \* and none is missing: as many requests as calls that were to send
        \* one
        /\ Cardinality({ k \in 1..Len(requests) : requests[k].to # "notion_patch" })
               = SentSoFar

C11_Step ==
    \* a call, failed or not, is followed by the next provider
    /\ pc = "call_llm" =>
           (pi' = pi + 1 /\ Len(per_llm') = Len(per_llm) + 1
               /\ SubSeq(per_llm', 1, Len(per_llm)) = per_llm)
    \* the update is issued from the state in which all results are in
    /\ Len(requests') > Len(requests) /\ requests'[Len(requests')].to = "notion_patch" =>
           (pc = "page_id" /\ Len(per_llm) = Len(LLM_CONFIGS) /\ per_llm' = per_llm)

\* C11: for every client the run processes, call_llm is invoked once for
\* each entry of LLM_CONFIGS, in the configured order, a failed call being
\* followed by the next provider and not repeated; all calls have returned
\* when the client's update request is issued, and no client gets more than
\* one update request.
C11_OneCallPerProviderThenOneUpdate == [](C11_State) /\ [][C11_Step]_vars

\* the first call for the second client failed, every later provider was
\* still called once, and the client's update followed
C11_Witness ==
    /\ pc = "done"
    /\ ci = 2
    /\ per_llm[1].notes.kind = "fallback_error"
    /\ \A p \in 1..Len(LLM_CONFIGS) : Cardinality(CallsTo(2, p)) = 1
    /\ Cardinality(UpdatesOf(1)) = 1
    /\ Cardinality(UpdatesOf(2)) = 1

-----------------------------------------------------------------------------
(* Properties of the drift check *)

\* row i of the tracking database is one the check is to report
HighDrift(i) == rows[i].status # "System" /\ rows[i].drift >= 400

\* the printed lines are the high-drift rows, each once, in the sink's order
ReportsExactlyHighDrift ==
    /\ Len(log) = Cardinality({i \in 1..Len(rows) : HighDrift(i)})
    /\ \A i \in 1..Len(rows) :
           HighDrift(i) <=>
               \E k \in 1..Len(log) :
                   /\ log[k].line = "drift"
                   /\ log[k].name = rows[i].name
                   /\ log[k].drift = rows[i].drift
                   /\ log[k].monthly = rows[i].monthly
    /\ \A k, l \in 1..Len(log) : k < l => log[k].monthly < log[l].monthly

OnlyReads == \A k \in 1..Len(requests) : requests[k].to = "notion_query"

-----------------------------------------------------------------------------
(* Properties of the provisioning routine *)

StepsInOrder ==
    /\ Len(requests) <= 2
    /\ Len(requests) >= 1 => requests[1].to = "github_generate"
    /\ Len(requests) >= 2 => requests[2].to = "notion_create"

C10_State ==
    /\ StepsInOrder
    \* step 2 is attempted only after step 1 succeeded
    /\ Len(requests) >= 2 => repo
    /\ rows # << >> => repo
    /\ rowId # 0 => \E k \in 1..Len(rows) : rows[k].id = rowId
    \* step 3 is reached only after both succeeded
    /\ pc \in {"update_yaml", "done"} => (repo /\ rowId # 0)
    \* step 2 refused after step 1: a repository and no tracking row
    /\ (pc = "failed" /\ Len(requests) = 2 /\ error = "HTTPError") =>
           (repo /\ rows = << >> /\ rowId = 0)

C10_Step ==
    \* nothing runs after a failure
    /\ pc # "failed"
    \* nothing is undone
    /\ repo => repo'
    /\ Len(rows') >= Len(rows) /\ SubSeq(rows', 1, Len(rows)) = rows
    /\ rowId # 0 => rowId' = rowId
    \* the file changes only in step 3, by one entry carrying the new row's id
    /\ doc' # doc =>
           /\ pc = "update_yaml" /\ pc' = "done"
           /\ repo /\ rowId # 0
           /\ Len(doc'.entries) = Len(doc.entries) + 1
           /\ SubSeq(doc'.entries, 1, Len(doc.entries)) = doc.entries
           /\ doc'.entries[Len(doc'.entries)].notion_page_id = rowId
    /\ pc' = "failed" => doc' = doc
    /\ (pc' = "done") => doc' # doc

\* C10: repository creation, tracking-row creation and the Client Source
\* append run in that order; a step that fails ends the routine, no later
\* step runs and no earlier one is undone; the entry is appended only after
\* both earlier steps succeeded and carries the id of the row of step 2.
C10_SequentialNoRollback == [](C10_State) /\ [][C10_Step]_vars

\* step 2 was refused after step 1 succeeded
C10_Witness ==
    /\ pc = "failed"
    /\ Len(requests) = 2
    /\ repo
    /\ rows = << >>
    /\ doc.kind = "legacy_list"
    /\ doc.entries # << >>

=============================================================================
